---- MODULE Spec2Model ----
(***************************************************************************)
(* surf_dashboard: the camera stream-URL resolver (fetch_stream.py) and    *)
(* the camera part of the page generator (cams.py main).                   *)
(*                                                                         *)
(* The resolver is a module-level script: one process run walks the urls   *)
(* dict, GETs each landing page, searches the raw body for the player-page *)
(* URL, GETs the player page, reads two assignments out of its last        *)
(* <script>, composes the media URL, and finally dumps the table to        *)
(* stream_url.json.  The page generator later loads that file and adds a   *)
(* <video> per camera name it knows.                                       *)
(*                                                                         *)
(* Strings are TLA+ strings; slicing, concatenation and the regular        *)
(* expressions are computed character by character.                        *)
(***************************************************************************)
EXTENDS Naturals, Sequences, FiniteSets

VARIABLES
    pc,               \* resolver: position in fetch_stream.py ("off": no process)
    rest,             \* resolver: items of urls the for loop has still to yield
    name,             \* resolver: loop variable
    url,              \* resolver: loop variable
    response,         \* resolver: requests.get(url)
    iframe_src,       \* resolver: the player-page URL found
    iframe_response,  \* resolver: requests.get(iframe_src)
    stream_url,       \* resolver: None, or the composed media URL
    stream_urls,      \* resolver: the table being built
    exc,              \* resolver: the exception that ended the process, or NoExc
    gets,             \* the GET requests the resolver issued in this run, in order
    writes,           \* how many times this run opened stream_url.json for writing
    file,             \* stream_url.json on disk: NoFile, or the dumped table
    runs,             \* resolver runs started so far
    cpc,              \* page generator: position in main ("off": no process)
    template,         \* page generator: what template.html holds
    loaded,           \* page generator: main's stream_urls
    haifa_grid,       \* page generator: children added to the Haifa grid
    tlv_grid,         \* page generator: children added to the TLV grid
    index_written     \* page generator: index.html was written by this run

rvars == <<pc, rest, name, url, response, iframe_src, iframe_response,
           stream_url, stream_urls, exc, gets, writes>>
cvars == <<cpc, template, loaded, haifa_grid, tlv_grid, index_written>>
vars == <<rvars, cvars, file, runs>>

(* Resolver runs per behaviour. *)
MaxRuns == 2

-----------------------------------------------------------------------------
(* Python values *)

None == "None"
NoExc == "-"
NoFile == [exists |-> FALSE, table |-> <<>>]
EmptyDict == <<>>
NoResponse == [status_code |-> 0, content |-> ""]
NoPage == [status_code |-> 0, scripts |-> <<>>]

Min(S) == CHOOSE x \in S : \A y \in S : x <= y
Max(S) == CHOOSE x \in S : \A y \in S : x >= y

(* s[i] and s[i:i+n] of a string, 1-based; past the end it is cut as Python cuts. *)
Char(s, i) == SubSeq(s, i, i)
Slice(s, i, n) == SubSeq(s, i, IF i + n - 1 > Len(s) THEN Len(s) ELSE i + n - 1)
From(s, i) == SubSeq(s, i, Len(s))
Contains(s, lit) == \E i \in 1..Len(s) : Slice(s, i, Len(lit)) = lit

(* dict[key] = value *)
DictSet(d, k, v) == [x \in DOMAIN d \cup {k} |-> IF x = k THEN v ELSE d[x]]

-----------------------------------------------------------------------------
(* str(response.content): the repr of a bytes object.  The delimiter is a   *)
(* single quote unless the bytes hold a single quote and no double quote; a *)
(* backslash, a line break and the single-quote delimiter are written as    *)
(* escapes, so the result holds no line break.                              *)

ReprQuote(content) ==
    IF Contains(content, "'") /\ ~Contains(content, "\"") THEN "\"" ELSE "'"

ReprChar(c, q) ==
    IF c = "\\" THEN "\\\\"
    ELSE IF c = "\n" THEN "\\n"
    ELSE IF c = "'" /\ q = "'" THEN "\\'"
    ELSE c

RECURSIVE ReprBody(_, _, _, _)
ReprBody(s, q, lo, hi) ==
    IF lo > hi THEN ""
    ELSE IF lo = hi THEN ReprChar(Char(s, lo), q)
    ELSE LET mid == (lo + hi) \div 2
         IN  ReprBody(s, q, lo, mid) \o ReprBody(s, q, mid + 1, hi)

PyStr(content) ==
    LET q == ReprQuote(content)
    IN  "b" \o q \o ReprBody(content, q, 1, Len(content)) \o q

-----------------------------------------------------------------------------
(* re.search: the match object of the leftmost match, or no match.          *)

NoMatch == [matched |-> FALSE, group1 |-> ""]
Match(g) == [matched |-> TRUE, group1 |-> g]

(* The player-page pattern of line 24: a double quote, the literal pieces    *)
(* with each dot standing for any character but a line break and the last p *)
(* optional, then everything up to the next double quote.                   *)
PlayerHead == "https://ipcamlive"
PlayerMid == "com/player/player"
PlayerTail == "ph"

AnyChar(s, i) == i <= Len(s) /\ Char(s, i) # "\n"

PlayerPrefixAt(s, a) ==
    LET d1 == a + Len(PlayerHead)
        d2 == d1 + 1 + Len(PlayerMid)
    IN  /\ Slice(s, a, Len(PlayerHead)) = PlayerHead
        /\ AnyChar(s, d1)
        /\ Slice(s, d1 + 1, Len(PlayerMid)) = PlayerMid
        /\ AnyChar(s, d2)
        /\ Slice(s, d2 + 1, Len(PlayerTail)) = PlayerTail

PlayerPrefixLen == Len(PlayerHead) + 1 + Len(PlayerMid) + 1 + Len(PlayerTail)

PlayerClose(s, a) == {k \in (a + PlayerPrefixLen)..Len(s) : Char(s, k) = "\""}

PlayerMatchAt(s, i) ==
    /\ Char(s, i) = "\""
    /\ PlayerPrefixAt(s, i + 1)
    /\ PlayerClose(s, i + 1) # {}

(* a slip in the search of line 24: the last match instead of the first *)
ReSearchPlayerLast(s) ==
    LET starts == {i \in 1..Len(s) : PlayerMatchAt(s, i)}
    IN  IF starts = {} THEN NoMatch
        ELSE LET i == Max(starts)
             IN  Match(SubSeq(s, i + 1, Min(PlayerClose(s, i + 1)) - 1))

ReSearchPlayer(s) ==
    LET starts == {i \in 1..Len(s) : PlayerMatchAt(s, i)}
    IN  IF starts = {} THEN NoMatch
        ELSE LET i == Min(starts)
             IN  Match(SubSeq(s, i + 1, Min(PlayerClose(s, i + 1)) - 1))

(* The assignment patterns of lines 35 and 37: the literal head, then        *)
(* greedily as much of the line as still leaves quote-semicolon after it.   *)
AssignHead(v) == "var " \o v \o " = '"

LineEnd(s, a) ==
    Min({k \in a..Len(s) : Char(s, k) = "\n"} \cup {Len(s) + 1}) - 1

AssignClose(s, a) == {j \in a..(LineEnd(s, a) - 1) : Slice(s, j, 2) = "';"}

AssignMatchAt(s, v, i) ==
    /\ Slice(s, i, Len(AssignHead(v))) = AssignHead(v)
    /\ AssignClose(s, i + Len(AssignHead(v))) # {}

ReSearchAssign(v, s) ==
    LET starts == {i \in 1..Len(s) : AssignMatchAt(s, v, i)}
    IN  IF starts = {} THEN NoMatch
        ELSE LET a == Min(starts) + Len(AssignHead(v))
             IN  Match(SubSeq(s, a, Max(AssignClose(s, a)) - 1))

(* str.strip(): leading and trailing blanks and line breaks removed. *)
IsSpace(c) == c \in {" ", "\n", "\t", "\r"}

Strip(s) ==
    LET keep == {i \in 1..Len(s) : ~IsSpace(Char(s, i))}
    IN  IF keep = {} THEN "" ELSE SubSeq(s, Min(keep), Max(keep))

-----------------------------------------------------------------------------
(* The input of fetch_stream.py: the urls dict, in insertion order. *)

urls ==
    << [name |-> "dolphinarium", url |-> "https://beachcam.co.il/dolfinarium.html"],
       [name |-> "hilton",       url |-> "https://beachcam.co.il/yamit.html"],
       [name |-> "bat-galim",    url |-> "https://beachcam.co.il/batgalim.html"],
       [name |-> "meridian",     url |-> "https://beachcam.co.il/meridian.html"] >>

SourceNames == {urls[i].name : i \in 1..Len(urls)}

-----------------------------------------------------------------------------
(* The upstream sites.  A landing page is a sequence of fragments, rendered *)
(* to the bytes the server sends; what a GET returns is drawn afresh at     *)
(* every request.                                                           *)

AliasA == "https://ipcamlive.com/player/player.php?alias=aaa"
AliasB == "https://ipcamlive.com/player/player.php?alias=bbb"
AliasSub == "https://g2.ipcamlive.com/player/player.php?alias=ccc"

Iframe(u) == [tag |-> "iframe", url |-> u]
Embed(u) == [tag |-> "script", url |-> u]
Plain == [tag |-> "p", url |-> ""]

RenderFragment(f) ==
    IF f.tag = "iframe" THEN "<iframe src=\"" \o f.url \o "\"></iframe>\n"
    ELSE IF f.tag = "script" THEN "<script>\nembed(\"" \o f.url \o "\");\n</script>\n"
    ELSE "<p>It's not here</p>\n"

RECURSIVE Render(_)
Render(page) ==
    IF page = <<>> THEN "" ELSE RenderFragment(Head(page)) \o Render(Tail(page))

LandingPages ==
    { << Iframe(AliasA), Embed(AliasB) >>,    \* a parsable iframe, then a script literal
      << Embed(AliasB), Embed(AliasA) >>,     \* no iframe element: injected by script
      << Iframe(AliasSub), Embed(AliasB) >>,  \* an iframe on a provider subdomain first
      << Iframe(AliasSub) >>,                 \* only the subdomain iframe
      << Plain >> }                           \* no player URL at all

ErrorPages == { << Plain >>, << Embed(AliasB), Embed(AliasA) >> }

ConnectionError == [raised |-> TRUE, status_code |-> 0, content |-> ""]
Served(code, body) == [raised |-> FALSE, status_code |-> code, content |-> body]

LandingOutcomes ==
    {ConnectionError}
        \cup {Served(200, Render(p)) : p \in LandingPages}
        \cup {Served(404, Render(p)) : p \in ErrorPages}

(* A player page as its parser sees it: the <script> elements in document   *)
(* order, each with its .string (None for an element without text).         *)
Script(text) == [string |-> text]
ConfScript(address, streamid) ==
    Script("\n  var address = '" \o address \o "';\n  var streamid = '"
           \o streamid \o "';\n  start();\n")
LibScript == Script("window.player = load();")
SrcScript == Script(None)

Streams == { <<"http://foo.example.com/", "abc123">>,
             <<"https://g1.example.net/", "xyz">> }

PlayerPages ==
    { << LibScript, ConfScript(st[1], st[2]) >> : st \in Streams }
        \cup { <<>>,                                       \* zero script elements
               << ConfScript("http://foo.example.com/", "abc123"), LibScript >>,
               << LibScript, SrcScript >>,                 \* the last one has no text
               << Script("var streamid = 'xyz';") >>,      \* no address assignment
               << Script("var address = 'http://foo.example.com/';") >> }

PlayerErrorPages ==
    { <<>>, << LibScript, ConfScript("http://foo.example.com/", "abc123") >> }

PlayerServed(code, scripts) == [raised |-> FALSE, status_code |-> code, scripts |-> scripts]
PlayerConnectionError == [raised |-> TRUE, status_code |-> 0, scripts |-> <<>>]

PlayerOutcomes ==
    {PlayerConnectionError}
        \cup {PlayerServed(200, p) : p \in PlayerPages}
        \cup {PlayerServed(503, p) : p \in PlayerErrorPages}

-----------------------------------------------------------------------------
(* fetch_stream.py *)

(* line 26: the only except clause of the script *)
ExceptClause == "TypeError"
Caught(e) == e = ExceptClause

(* a slip in the slice of line 36: stream_address[3:] *)
HttpsSliceOffByOne(stream_address) == "https" \o From(stream_address, 4)

(* line 36: "https" + stream_address[4:] *)
Https(stream_address) == "https" \o From(stream_address, 5)

(* line 39: the f-string *)
StreamUrl(stream_address, stream_id) ==
    stream_address \o "streams/" \o stream_id \o "/stream.m3u8"

(* An exception nothing catches ends the process with a traceback. *)
Crash(e) ==
    /\ pc' = "crashed"
    /\ exc' = e

(* python fetch_stream.py: a fresh process; line 13 *)
StartRun ==
    /\ pc = "off"
    /\ cpc = "off"
    /\ runs < MaxRuns
    /\ runs' = runs + 1
    /\ pc' = "for"
    /\ rest' = urls
    /\ stream_urls' = EmptyDict
    /\ gets' = <<>>
    /\ writes' = 0
    /\ UNCHANGED <<name, url, response, iframe_src, iframe_response, stream_url,
                   exc, file, cvars>>

(* line 14: the loop head yields the next item, or the loop ends.  What the *)
(* previous iteration left in response, iframe_src, iframe_response and     *)
(* stream_url is not read again before it is assigned, and is dropped here. *)
ForNext ==
    /\ pc = "for"
    /\ IF rest = <<>>
          THEN /\ pc' = "dump"
               /\ UNCHANGED <<rest, name, url>>
          ELSE /\ pc' = "get_landing"
               /\ name' = Head(rest).name
               /\ url' = Head(rest).url
               /\ rest' = Tail(rest)
    /\ response' = NoResponse
    /\ iframe_src' = None
    /\ iframe_response' = NoPage
    /\ stream_url' = None
    /\ UNCHANGED <<stream_urls, exc, gets, writes, file, runs, cvars>>

(* line 15: requests.get(url) returns whatever status the server sent, and  *)
(* raises only when the request itself fails.                               *)
GetLanding ==
    /\ pc = "get_landing"
    /\ gets' = Append(gets, <<name, "landing">>)
    /\ \E r \in LandingOutcomes :
          IF r.raised
             THEN /\ Crash("ConnectionError")
                  /\ UNCHANGED response
             ELSE /\ response' = [status_code |-> r.status_code, content |-> r.content]
                  /\ pc' = "search"
                  /\ UNCHANGED exc
    /\ UNCHANGED <<rest, name, url, iframe_src, iframe_response, stream_url,
                   stream_urls, writes, file, runs, cvars>>

(* lines 16-29: m.group(1) on no match raises AttributeError *)
Search ==
    /\ pc = "search"
    /\ LET m == ReSearchPlayer(PyStr(response.content))
       IN  IF m.matched
              THEN /\ iframe_src' = m.group1
                   /\ stream_url' = None           \* line 29
                   /\ pc' = "get_player"
                   /\ UNCHANGED exc
              ELSE IF Caught("AttributeError")
                      THEN /\ pc' = "for"            \* print, continue
                           /\ UNCHANGED <<iframe_src, stream_url, exc>>
                      ELSE /\ Crash("AttributeError")
                           /\ UNCHANGED <<iframe_src, stream_url>>
    /\ UNCHANGED <<rest, name, url, response, iframe_response, stream_urls,
                   gets, writes, file, runs, cvars>>

(* line 31 *)
GetPlayer ==
    /\ pc = "get_player"
    /\ gets' = Append(gets, <<name, "player">>)
    /\ \E r \in PlayerOutcomes :
          IF r.raised
             THEN /\ Crash("ConnectionError")
                  /\ UNCHANGED iframe_response
             ELSE /\ iframe_response' = [status_code |-> r.status_code, scripts |-> r.scripts]
                  /\ pc' = "parse"
                  /\ UNCHANGED exc
    /\ UNCHANGED <<rest, name, url, response, iframe_src, stream_url,
                   stream_urls, writes, file, runs, cvars>>

(* lines 32-41.  The exception the page raises, if any: [-1] of an empty    *)
(* list, .strip() of None, .group(1) of no match.                           *)
ParseError(scripts) ==
    IF scripts = <<>> THEN "IndexError"
    ELSE IF scripts[Len(scripts)].string = None THEN "AttributeError"
    ELSE LET script_text == Strip(scripts[Len(scripts)].string)
         IN  IF ~ReSearchAssign("address", script_text).matched THEN "AttributeError"
             ELSE IF ~ReSearchAssign("streamid", script_text).matched THEN "AttributeError"
             ELSE NoExc

Parse ==
    /\ pc = "parse"
    /\ LET scripts == iframe_response.scripts
           e == ParseError(scripts)
       IN  IF e # NoExc
              THEN /\ Crash(e)
                   /\ UNCHANGED <<stream_url, stream_urls>>
              ELSE LET script_text == Strip(scripts[Len(scripts)].string)
                       stream_address ==
                           Https(ReSearchAssign("address", script_text).group1)
                       stream_id == ReSearchAssign("streamid", script_text).group1
                   IN  /\ IF stream_id # None
                             THEN /\ stream_url' = StreamUrl(stream_address, stream_id)
                                  /\ stream_urls' =
                                         DictSet(stream_urls, name, stream_url')
                             ELSE UNCHANGED <<stream_url, stream_urls>>
                       /\ pc' = "for"
                       /\ UNCHANGED exc
    /\ UNCHANGED <<rest, name, url, response, iframe_src, iframe_response,
                   gets, writes, file, runs, cvars>>

(* a slip in the indentation of lines 43-44: the dump inside the loop body *)
DumpInsideLoop ==
    /\ pc = "for"
    /\ name # None
    /\ writes < Len(urls)
    /\ writes' = writes + 1
    /\ file' = [exists |-> TRUE, table |-> stream_urls]
    /\ UNCHANGED <<pc, rest, name, url, response, iframe_src, iframe_response,
                   stream_url, stream_urls, exc, gets, runs, cvars>>

(* lines 43-44: open(..., 'w') and json.dump, then the script ends *)
Dump ==
    /\ pc = "dump"
    /\ writes' = writes + 1
    /\ file' = [exists |-> TRUE, table |-> stream_urls]
    /\ pc' = "done"
    /\ UNCHANGED <<rest, name, url, response, iframe_src, iframe_response,
                   stream_url, stream_urls, exc, gets, runs, cvars>>

(* The process is gone, and its memory with it. *)
Exit ==
    /\ pc \in {"done", "crashed"}
    /\ pc' = "off"
    /\ rest' = <<>>
    /\ name' = None
    /\ url' = None
    /\ response' = NoResponse
    /\ iframe_src' = None
    /\ iframe_response' = NoPage
    /\ stream_url' = None
    /\ stream_urls' = EmptyDict
    /\ exc' = NoExc
    /\ gets' = <<>>
    /\ writes' = 0
    /\ UNCHANGED <<file, runs, cvars>>

-----------------------------------------------------------------------------
(* cams.py: main, as far as the camera grids go.  The forecast and buoy     *)
(* cards of lines 280-320 fill other elements of the page and are taken as  *)
(* done when the stream table is loaded.                                    *)

(* template.html: missing, or present with or without the two containers *)
Templates ==
    { [exists |-> FALSE, haifa |-> FALSE, tlv |-> FALSE] }
        \cup { [exists |-> TRUE, haifa |-> h, tlv |-> t] : h, t \in BOOLEAN }
NoTemplate == [exists |-> FALSE, haifa |-> FALSE, tlv |-> FALSE]

static_haifa ==
    << "https://g2.ipcamlive.com/player/player.php?alias=5ffd9eb29b665",
       "https://g0.ipcamlive.com/player/player.php?alias=60acaa1aeee83" >>
relevant_haifa == << "bat-galim", "meridian" >>
relevant_tlv == << "dolphinarium", "hilton", "yafo" >>
municipality_tlv ==
    << "https://streaming.therdteam.com/live/play.html?id=10006",
       "https://streaming.therdteam.com/live/play.html?id=10004",
       "https://streaming.therdteam.com/live/play.html?id=10005",
       "https://streaming.therdteam.com/live/play.html?id=10007",
       "https://streaming.therdteam.com/live/play.html?id=10001",
       "https://streaming.therdteam.com/live/play.html?id=10000",
       "https://streaming.therdteam.com/live/play.html?id=10002",
       "https://streaming.therdteam.com/live/play.html?id=10003" >>

(* a slip in line 255: the source element gets the id instead of the URL *)
create_video_tag_src_is_id(id_name, src_url) ==
    [tag |-> "video", id |-> id_name \o "-cam", src |-> id_name]

(* lines 243-258: the grid item's <video>, with its <source> *)
create_video_tag(id_name, src_url) ==
    [tag |-> "video", id |-> id_name \o "-cam", src |-> src_url]

(* lines 261-265 *)
create_iframe_tag(src_url) == [tag |-> "iframe", id |-> "", src |-> src_url]

IframeTags(list) == [i \in 1..Len(list) |-> create_iframe_tag(list[i])]

(* lines 342-345 and 354-357: for name in relevant: if name in stream_urls *)
VideoTags(relevant, table) ==
    LET present == SelectSeq(relevant, LAMBDA n : n \in DOMAIN table)
    IN  [i \in 1..Len(present) |-> create_video_tag(present[i], table[present[i]])]

(* python cams.py: lines 270-278 *)
MainStart ==
    /\ cpc = "off"
    /\ pc = "off"
    /\ \E t \in Templates :
          /\ template' = t
          /\ cpc' = IF t.exists THEN "load" ELSE "returned"
    /\ UNCHANGED <<loaded, haifa_grid, tlv_grid, index_written, rvars, file, runs>>

(* lines 322-326 *)
MainLoad ==
    /\ cpc = "load"
    /\ loaded' = IF file.exists THEN file.table ELSE EmptyDict
    /\ cpc' = "haifa"
    /\ UNCHANGED <<template, haifa_grid, tlv_grid, index_written, rvars, file, runs>>

(* lines 328-345 *)
MainHaifa ==
    /\ cpc = "haifa"
    /\ haifa_grid' = IF template.haifa
                        THEN IframeTags(static_haifa) \o VideoTags(relevant_haifa, loaded)
                        ELSE <<>>
    /\ cpc' = "tlv"
    /\ UNCHANGED <<template, loaded, tlv_grid, index_written, rvars, file, runs>>

(* lines 347-371 *)
MainTlv ==
    /\ cpc = "tlv"
    /\ tlv_grid' = IF template.tlv
                      THEN VideoTags(relevant_tlv, loaded) \o IframeTags(municipality_tlv)
                      ELSE <<>>
    /\ cpc' = "write"
    /\ UNCHANGED <<template, loaded, haifa_grid, index_written, rvars, file, runs>>

(* lines 373-389 *)
MainWrite ==
    /\ cpc = "write"
    /\ index_written' = TRUE
    /\ cpc' = "done"
    /\ UNCHANGED <<template, loaded, haifa_grid, tlv_grid, rvars, file, runs>>

MainExit ==
    /\ cpc \in {"done", "returned"}
    /\ cpc' = "off"
    /\ template' = NoTemplate
    /\ loaded' = EmptyDict
    /\ haifa_grid' = <<>>
    /\ tlv_grid' = <<>>
    /\ index_written' = FALSE
    /\ UNCHANGED <<rvars, file, runs>>

-----------------------------------------------------------------------------

Init ==
    /\ pc = "off"
    /\ rest = <<>>
    /\ name = None
    /\ url = None
    /\ response = NoResponse
    /\ iframe_src = None
    /\ iframe_response = NoPage
    /\ stream_url = None
    /\ stream_urls = EmptyDict
    /\ exc = NoExc
    /\ gets = <<>>
    /\ writes = 0
    /\ file = NoFile
    /\ runs = 0
    /\ cpc = "off"
    /\ template = NoTemplate
    /\ loaded = EmptyDict
    /\ haifa_grid = <<>>
    /\ tlv_grid = <<>>
    /\ index_written = FALSE

Next ==
    \/ StartRun
    \/ ForNext
    \/ GetLanding
    \/ Search
    \/ GetPlayer
    \/ Parse
    \/ Dump
    \/ Exit
    \/ MainStart
    \/ MainLoad
    \/ MainHaifa
    \/ MainTlv
    \/ MainWrite
    \/ MainExit

Spec == Init /\ [][Next]_vars

-----------------------------------------------------------------------------
(* What the claims speak of *)

LastScript == iframe_response.scripts[Len(iframe_response.scripts)]

(* The iteration for name has just ended by recording an entry. *)
Recorded == pc = "for" /\ stream_url # None

(* A run has ended, one way or the other, and its process is still there. *)
RunEnded == pc \in {"done", "crashed"}

(* The landing page behind the response at hand, as fragments. *)
KnownPages == LandingPages \cup ErrorPages
PageServed == CHOOSE p \in KnownPages : Render(p) = response.content

(* The fragments a structural lookup finds: iframe elements whose src is on *)
(* the provider domain (the disabled lines 19-22).                          *)
StructuralUrls(page) ==
    SelectSeq(page, LAMBDA f : f.tag = "iframe" /\ Contains(f.url, "ipcamlive.com"))

(* The fragments that hold a player-page URL literal, element or not. *)
PlayerUrl == "https://ipcamlive.com/player/player.php"
TextualUrls(page) ==
    SelectSeq(page, LAMBDA f : Slice(f.url, 1, Len(PlayerUrl)) = PlayerUrl)

LandingGets == {gets[i][1] : i \in {j \in 1..Len(gets) : gets[j][2] = "landing"}}

(* C1: a run attempts every source and ends by writing the table to        *)
(* stream_url.json, whatever fails for whichever source.                   *)
C1_RunAlwaysSerializes ==
    RunEnded =>
        /\ pc = "done"
        /\ LandingGets = SourceNames
        /\ writes = 1
        /\ file = [exists |-> TRUE, table |-> stream_urls]

(* C2: a landing or player GET that errors or returns a non-success status *)
(* makes the source be skipped: no later step works on the failed          *)
(* response, no entry is recorded for it, no exception ends the batch.     *)
C2_FailedFetchSkipsSource ==
    /\ pc = "search" => response.status_code = 200
    /\ pc = "parse" => iframe_response.status_code = 200
    /\ Recorded => response.status_code = 200 /\ iframe_response.status_code = 200
    /\ pc = "crashed" => exc # "ConnectionError"

(* C3: a landing page in which the pattern finds no player-page URL makes  *)
(* the source be skipped, with no player request and no entry, and the     *)
(* loop goes on.                                                           *)
C3_NoMatchSkipsSource ==
    (response # NoResponse /\ ~ReSearchPlayer(PyStr(response.content)).matched) =>
        /\ pc # "crashed"
        /\ \A i \in 1..Len(gets) : gets[i] # <<name, "player">>
        /\ name \notin DOMAIN stream_urls

(* C4: the table holds an entry for a name only if the name is a source    *)
(* and every step of its resolution succeeded: both fetches, the URL       *)
(* search, a last script with text, the streamid.                          *)
C4_EntryOnlyOnFullSuccess ==
    /\ DOMAIN stream_urls \subseteq SourceNames
    /\ \A n \in DOMAIN stream_urls : stream_urls[n] # None
    /\ (pc = "for" /\ name \in DOMAIN stream_urls) =>
          /\ response.status_code = 200
          /\ iframe_src # None
          /\ iframe_response.status_code = 200
          /\ iframe_response.scripts # <<>>
          /\ LastScript.string # None
          /\ ReSearchAssign("streamid", Strip(LastScript.string)).matched

(* C5: a last script with a streamid assignment and no address assignment  *)
(* resolves on the default host.                                           *)
OnlyStreamId ==
    /\ iframe_response.scripts # <<>>
    /\ LastScript.string = "var streamid = 'xyz';"

C5_DefaultHost ==
    (OnlyStreamId /\ pc # "parse") =>
        /\ pc = "for"
        /\ name \in DOMAIN stream_urls
        /\ stream_urls[name] = "https://s5.ipcamlive.com/streams/xyz/stream.m3u8"

(* C6: an entry recorded from a script with an address is the address with *)
(* its first 4 characters replaced by https, then streams/, the streamid,  *)
(* /stream.m3u8; http://foo.example.com/ and abc123 give                   *)
(* https://foo.example.com/streams/abc123/stream.m3u8.                     *)
C6_MediaUrl ==
    Recorded =>
        /\ name \in DOMAIN stream_urls
        /\ stream_urls[name] = stream_url
        /\ \E st \in Streams :
              /\ LastScript = ConfScript(st[1], st[2])
              /\ stream_url =
                    "https" \o SubSeq(st[1], 5, Len(st[1]))
                        \o "streams/" \o st[2] \o "/stream.m3u8"
        /\ LastScript = ConfScript("http://foo.example.com/", "abc123") =>
              stream_url = "https://foo.example.com/streams/abc123/stream.m3u8"

C6_Witness ==
    /\ Recorded
    /\ LastScript = ConfScript("http://foo.example.com/", "abc123")
    /\ stream_urls[name] = "https://foo.example.com/streams/abc123/stream.m3u8"

(* C7: when a run has ended, the table on disk is the table of that run,   *)
(* with nothing of an earlier run's file in it.                            *)
C7_FileIsThisRunsTable ==
    (RunEnded /\ file.exists) => file.table = stream_urls

(* C8 (as stated): every camera the page generator knows yields one grid   *)
(* item: a video on the mapped URL when its key is present, a static       *)
(* placeholder when the key, or the whole file, is missing.                *)
TableOnDisk == IF file.exists THEN file.table ELSE EmptyDict
GridsBuilt == cpc \in {"write", "done"}
Names(relevant) == {relevant[i] : i \in 1..Len(relevant)}
VideosFor(grid, n) ==
    {i \in 1..Len(grid) : grid[i].tag = "video" /\ grid[i].id = n \o "-cam"}

VideoOnMappedUrl(grid, n) ==
    /\ Cardinality(VideosFor(grid, n)) = 1
    /\ \A i \in VideosFor(grid, n) : grid[i].src = TableOnDisk[n]

C8_PlaceholderForMissing ==
    GridsBuilt =>
        /\ template.haifa =>
              /\ \A n \in Names(relevant_haifa) \cap DOMAIN TableOnDisk :
                    VideoOnMappedUrl(haifa_grid, n)
              /\ Len(haifa_grid) = Len(static_haifa) + Len(relevant_haifa)
        /\ template.tlv =>
              /\ \A n \in Names(relevant_tlv) \cap DOMAIN TableOnDisk :
                    VideoOnMappedUrl(tlv_grid, n)
              /\ Len(tlv_grid) = Len(municipality_tlv) + Len(relevant_tlv)

(* C8 (amended): in a container the template has, a camera whose key is    *)
(* present yields exactly one video, on the mapped URL; a camera whose key *)
(* is missing, also when the file is missing, yields nothing: the grid     *)
(* holds the fixed iframes and the videos of the present keys only.        *)
C8_MissingKeyOmitted ==
    GridsBuilt =>
        /\ IF template.haifa
              THEN /\ \A n \in Names(relevant_haifa) :
                         IF n \in DOMAIN TableOnDisk
                            THEN VideoOnMappedUrl(haifa_grid, n)
                            ELSE VideosFor(haifa_grid, n) = {}
                   /\ Len(haifa_grid) = Len(static_haifa)
                         + Cardinality(Names(relevant_haifa) \cap DOMAIN TableOnDisk)
              ELSE haifa_grid = <<>>
        /\ IF template.tlv
              THEN /\ \A n \in Names(relevant_tlv) :
                         IF n \in DOMAIN TableOnDisk
                            THEN VideoOnMappedUrl(tlv_grid, n)
                            ELSE VideosFor(tlv_grid, n) = {}
                   /\ Len(tlv_grid) = Len(municipality_tlv)
                         + Cardinality(Names(relevant_tlv) \cap DOMAIN TableOnDisk)
              ELSE tlv_grid = <<>>

C8_Witness ==
    /\ cpc = "done"
    /\ index_written
    /\ template.haifa /\ template.tlv
    /\ "hilton" \in DOMAIN TableOnDisk
    /\ "yafo" \notin DOMAIN TableOnDisk
    /\ \E i \in 1..Len(tlv_grid) :
          tlv_grid[i] = [tag |-> "video", id |-> "hilton-cam", src |-> file.table["hilton"]]
    /\ Len(tlv_grid) = Len(municipality_tlv) + 2

C10_SequentialSingleWrite ==
    /\ \A i \in 1..Len(gets) :
          IF gets[i][2] = "player"
             THEN i > 1 /\ gets[i - 1] = <<gets[i][1], "landing">>
             ELSE /\ i > 1 => gets[i - 1][2] = "player" /\ gets[i - 1][1] # gets[i][1]
                  /\ \A j \in 1..(i - 1) : gets[j] # gets[i]
    /\ writes <= 1
    /\ pc \in {"for", "get_landing", "search", "get_player", "parse", "dump", "crashed"}
          => writes = 0
    /\ writes = 1 =>
          /\ pc = "done"
          /\ rest = <<>>
          /\ LandingGets = SourceNames
          /\ file = [exists |-> TRUE, table |-> stream_urls]

C10_Witness ==
    /\ pc = "done"
    /\ writes = 1
    /\ Len(gets) = 2 * Len(urls)
    /\ DOMAIN file.table = SourceNames

====
